---- MODULE Spec2Model ----
(***************************************************************************)
(* A model of bot.py, the Telegram file-indexing bot: the MIME classifier  *)
(* get_file_type_hint, the in-memory index FILE_DATABASE, and the three    *)
(* handlers start, handle_file and search_files.                           *)
(*                                                                         *)
(* Python strings are TLA+ strings, taken apart with Len and SubSeq and    *)
(* glued with \o.  A Python dict is a sequence of <key, value> entries in  *)
(* insertion order, which is the order in which dict.items() iterates.     *)
(***************************************************************************)
EXTENDS Integers, Sequences, FiniteSets, TLC

VARIABLES
    FILE_DATABASE,  \* bot.py:25, the dict, as a sequence of [file_id, data]
    update,         \* the update handed to the handler that ran last
    reply,          \* what that handler sent back with reply_text / reply_html
    results,        \* search_files' local list `results` (bot.py:128), or NoScan
    mime_arg,       \* the argument of a direct call of get_file_type_hint
    hint_ret,       \* what that call returned
    scan            \* a search_files call suspended inside its for loop

vars == <<FILE_DATABASE, update, reply, results, mime_arg, hint_ret, scan>>

\* Python's None where a string is expected, and where an object is expected
None == "<None>"
Absent == [absent |-> TRUE]
\* `results` when the handler that ran last never reached bot.py:128
NoScan == [scanned |-> FALSE]
Unset == "<unset>"

\* bot.py:25: the index is empty when the process starts; nothing was handled
InitCommon ==
    /\ FILE_DATABASE = <<>>
    /\ update = [kind |-> "none"]
    /\ reply = [kind |-> "none"]
    /\ results = NoScan
    /\ scan = [pc |-> "idle"]

----------------------------------------------------------------------------
(* Strings                                                                 *)

Lowers == "abcdefghijklmnopqrstuvwxyz"
Uppers == "ABCDEFGHIJKLMNOPQRSTUVWXYZ"

CharAt(s, i) == SubSeq(s, i, i)

\* str.upper() and str.lower() on the ASCII letters, one character at a time
UpperTable ==
    [c \in {CharAt(Lowers, i) : i \in 1..26} |->
        CharAt(Uppers, CHOOSE i \in 1..26 : CharAt(Lowers, i) = c)]

LowerTable ==
    [c \in {CharAt(Uppers, i) : i \in 1..26} |->
        CharAt(Lowers, CHOOSE i \in 1..26 : CharAt(Uppers, i) = c)]

RECURSIVE upper(_)
upper(s) ==
    IF s = "" THEN ""
    ELSE LET c == CharAt(s, 1)
         IN  (IF c \in DOMAIN UpperTable THEN UpperTable[c] ELSE c)
                 \o upper(SubSeq(s, 2, Len(s)))

RECURSIVE lower(_)
lower(s) ==
    IF s = "" THEN ""
    ELSE LET c == CharAt(s, 1)
         IN  (IF c \in DOMAIN LowerTable THEN LowerTable[c] ELSE c)
                 \o lower(SubSeq(s, 2, Len(s)))

\* Python's `sub in s`
Contains(s, sub) ==
    \E i \in 1..(Len(s) - Len(sub) + 1) : SubSeq(s, i, i + Len(sub) - 1) = sub

\* s.split(sep) for a one-character sep: every occurrence splits, empty
\* pieces are kept.  split_at holds the start of the current piece and the
\* position being read.
RECURSIVE split_at(_, _, _, _)
split_at(s, sep, start, i) ==
    IF i > Len(s) THEN <<SubSeq(s, start, Len(s))>>
    ELSE IF CharAt(s, i) = sep
         THEN <<SubSeq(s, start, i - 1)>> \o split_at(s, sep, i + 1, i + 1)
         ELSE split_at(s, sep, start, i + 1)

split(s, sep) == split_at(s, sep, 1, 1)

\* sep.join(parts)
RECURSIVE join(_, _)
join(sep, parts) ==
    IF parts = <<>> THEN ""
    ELSE IF Len(parts) = 1 THEN parts[1]
    ELSE parts[1] \o sep \o join(sep, Tail(parts))

----------------------------------------------------------------------------
(* The MIME classifier, bot.py:28-46                                       *)

VIDEO_MIMES ==
    <<"video/mp4", "video/x-matroska", "video/quicktime", "video/mpeg",
      "video/webm", "video/x-msvideo">>
DOCUMENT_MIMES == <<"application/pdf", "application/zip", "text/plain">>
IMAGE_MIMES == <<"image/jpeg", "image/png", "image/gif">>

\* Python's `x in list`
InList(x, list) == \E i \in 1..Len(list) : list[i] = x

\* A slip: the first piece of the split instead of the last.
get_file_type_hint_first(mime_type) ==
    IF InList(mime_type, VIDEO_MIMES) THEN "Video (MP4/MKV/Other)"
    ELSE IF InList(mime_type, DOCUMENT_MIMES) THEN "Document (PDF/ZIP/Text)"
    ELSE IF InList(mime_type, IMAGE_MIMES) THEN "Image"
    ELSE IF Contains(mime_type, "/")
         THEN upper(split(mime_type, "/")[1])
         ELSE "Other File"

get_file_type_hint(mime_type) ==
    IF InList(mime_type, VIDEO_MIMES) THEN "Video (MP4/MKV/Other)"
    ELSE IF InList(mime_type, DOCUMENT_MIMES) THEN "Document (PDF/ZIP/Text)"
    ELSE IF InList(mime_type, IMAGE_MIMES) THEN "Image"
    ELSE IF Contains(mime_type, "/")
         THEN LET parts == split(mime_type, "/")
              IN  upper(parts[Len(parts)])
         ELSE "Other File"

----------------------------------------------------------------------------
(* The index, bot.py:25: dict operations on the entry sequence             *)

Min(a, b) == IF a < b THEN a ELSE b

HasKey(d, k) == \E i \in 1..Len(d) : d[i].file_id = k

KeyPos(d, k) == CHOOSE i \in 1..Len(d) : d[i].file_id = k

\* d[k]
DictGet(d, k) == d[KeyPos(d, k)].data

\* A slip: an update that merges into the record already there and so keeps
\* the first uploader as the owner
DictSet_keep_owner(d, k, v) ==
    IF HasKey(d, k)
    THEN [d EXCEPT ![KeyPos(d, k)] =
            [file_id |-> k, data |-> [v EXCEPT !.user_id = DictGet(d, k).user_id]]]
    ELSE Append(d, [file_id |-> k, data |-> v])

\* d[k] = v: a key already present keeps its place and gets the new value,
\* a new key goes to the end
DictSet(d, k, v) ==
    IF HasKey(d, k)
    THEN [d EXCEPT ![KeyPos(d, k)] = [file_id |-> k, data |-> v]]
    ELSE Append(d, [file_id |-> k, data |-> v])

\* Python's `x or default`: None and the empty string are falsy
Or(x, default) == IF x = None \/ x = "" THEN default ELSE x

----------------------------------------------------------------------------
(* start, bot.py:51-60                                                     *)

\* A slip: /start begins a fresh index
start_reset(user) ==
    /\ update' = [kind |-> "start", user |-> user]
    /\ reply' = [kind |-> "welcome", user |-> user]
    /\ results' = NoScan
    /\ FILE_DATABASE' = <<>>
    /\ UNCHANGED <<mime_arg, hint_ret, scan>>

start(user) ==
    /\ update' = [kind |-> "start", user |-> user]
    /\ reply' = [kind |-> "welcome", user |-> user]
    /\ results' = NoScan
    /\ UNCHANGED <<FILE_DATABASE, mime_arg, hint_ret, scan>>

----------------------------------------------------------------------------
(* handle_file, bot.py:62-115                                              *)

\* A slip: video is looked at before document
file_kind_video_first(message) ==
    IF message.video # Absent THEN "video"
    ELSE IF message.document # Absent THEN "document"
    ELSE IF message.audio # Absent THEN "audio"
    ELSE None

\* bot.py:72-87: the if / elif / elif chain that picks file_obj
file_kind(message) ==
    IF message.document # Absent THEN "document"
    ELSE IF message.video # Absent THEN "video"
    ELSE IF message.audio # Absent THEN "audio"
    ELSE None

file_obj_of(message) ==
    IF file_kind(message) = "document" THEN message.document
    ELSE IF file_kind(message) = "video" THEN message.video
    ELSE IF file_kind(message) = "audio" THEN message.audio
    ELSE Absent

file_name_of(message) ==
    IF file_kind(message) = "document"
        THEN Or(message.document.file_name, "Unnamed Document")
    ELSE IF file_kind(message) = "video"
        THEN Or(message.video.file_name, "Unnamed Video")
    ELSE IF file_kind(message) = "audio"
        THEN Or(message.audio.file_name, "Unnamed Audio")
    ELSE "N/A"

mime_type_of(message) ==
    IF file_kind(message) = "document"
        THEN Or(message.document.mime_type, "application/octet-stream")
    ELSE IF file_kind(message) = "video"
        THEN Or(message.video.mime_type, "video/mp4")
    ELSE Or(message.audio.mime_type, "audio/mpeg")

\* The MIME types a message of this model can end up with, and
\* get_file_type_hint of each, evaluated once instead of at every step
MessageMimes ==
    {"application/pdf", "text/x-log", "application/octet-stream", "video/mp4",
     "audio/mpeg"}

TYPE_HINT == [m \in MessageMimes |-> get_file_type_hint(m)]

\* bot.py:92 and 95-101: type_hint and the dict literal
new_record(message) ==
    [file_name |-> file_name_of(message),
     mime_type |-> mime_type_of(message),
     user_id |-> message.from_user,
     type_hint |-> TYPE_HINT[mime_type_of(message)],
     file_unique_id |-> file_obj_of(message).file_unique_id]

\* bot.py:95: FILE_DATABASE[file_id] = {...}
store(message, record) ==
    DictSet(FILE_DATABASE, file_obj_of(message).file_id, record)

\* A slip: no `if file_obj:` test, so file_obj.file_id raises on None and
\* error_handler (bot.py:155-160) answers
not_a_file_raises ==
    /\ FILE_DATABASE' = FILE_DATABASE
    /\ reply' = [kind |-> "internal_error"]

\* bot.py:113-115: the else branch
not_a_file ==
    /\ FILE_DATABASE' = FILE_DATABASE
    /\ reply' = [kind |-> "unprocessable"]

\* bot.py:64-115: what handle_file writes and sends
handle_file_effect(message) ==
    /\ update' = [kind |-> "file", message |-> message]
    /\ IF file_obj_of(message) # Absent
       THEN LET record == new_record(message)
            IN  /\ FILE_DATABASE' = store(message, record)
                /\ reply' = [kind |-> "indexed",
                             file_name |-> record.file_name,
                             type_hint |-> record.type_hint,
                             mime_type |-> record.mime_type,
                             file_id |-> file_obj_of(message).file_id]
       ELSE not_a_file

handle_file(message) ==
    /\ handle_file_effect(message)
    /\ results' = NoScan
    /\ UNCHANGED <<mime_arg, hint_ret, scan>>

----------------------------------------------------------------------------
(* search_files, bot.py:118-152                                            *)

TOP_N == 5

\* A slip: the query is not lower-cased
query_of_as_typed(args) == join(" ", args)

\* bot.py:124
query_of(args) == lower(join(" ", args))

\* A slip: `not context.args` is not tested
no_args_unchecked(args) == FALSE

\* bot.py:120: `not context.args`
no_args(args) == args = <<>>

\* A slip: the owner is not compared
matches_any_owner(data, user_id, query) ==
    Contains(lower(data.file_name), query)

\* bot.py:132: the test of one record
matches(data, user_id, query) ==
    data.user_id = user_id /\ Contains(lower(data.file_name), query)

\* bot.py:130-133: the for loop over FILE_DATABASE.items(), from entry i on
RECURSIVE scan_from(_, _, _, _, _)
scan_from(d, i, user_id, query, acc) ==
    IF i > Len(d) THEN acc
    ELSE scan_from(d, i + 1, user_id, query,
                   IF matches(d[i].data, user_id, query)
                   THEN Append(acc, d[i].data) ELSE acc)

\* A slip: the last five instead of the first five
shown_last(res) == SubSeq(res, Len(res) - Min(TOP_N, Len(res)) + 1, Len(res))

\* bot.py:142: results[:5]
shown(res) == SubSeq(res, 1, Min(TOP_N, Len(res)))

\* bot.py:135-152: the message built from results
search_reply(res, query) ==
    IF res = <<>>
    THEN [kind |-> "no_match", query |-> query]
    ELSE [kind |-> "found",
          total |-> Len(res),
          query |-> query,
          listed |-> [i \in 1..Len(shown(res)) |->
                        [number |-> i,
                         file_name |-> shown(res)[i].file_name,
                         type_hint |-> shown(res)[i].type_hint,
                         file_unique_id |-> shown(res)[i].file_unique_id]],
          more |-> IF Len(res) > TOP_N THEN <<Len(res) - TOP_N>> ELSE <<>>]

search_files(user, args) ==
    /\ update' = [kind |-> "search", user |-> user, args |-> args]
    /\ IF no_args(args)
       THEN /\ reply' = [kind |-> "prompt"]
            /\ results' = NoScan
       ELSE LET res == scan_from(FILE_DATABASE, 1, user, query_of(args), <<>>)
            IN  /\ results' = [scanned |-> TRUE, list |-> res]
                /\ reply' = search_reply(res, query_of(args))
    /\ UNCHANGED <<FILE_DATABASE, mime_arg, hint_ret, scan>>

----------------------------------------------------------------------------
(* Updates handled one after the other                                     *)

MaxFileId == 2

FileIds == 1..MaxFileId
Users == {7, 42}

\* What an attachment can declare besides its file id: everything, nothing,
\* or empty strings
Shapes ==
    {[file_unique_id |-> "uq1", file_name |-> "Report.PDF",
      mime_type |-> "application/pdf"],
     [file_unique_id |-> "uq2", file_name |-> None, mime_type |-> None],
     [file_unique_id |-> "uq2", file_name |-> "", mime_type |-> ""]}

Attachments ==
    {[file_id |-> f, file_unique_id |-> s.file_unique_id,
      file_name |-> s.file_name, mime_type |-> s.mime_type] :
        f \in FileIds, s \in Shapes}

Kinds == {"document", "video", "audio"}

PresentKinds(message) == {k \in Kinds : message[k] # Absent}

\* The file ids of a message's attachments, document first
IdsOf(m) ==
    LET ids(k) == IF m[k] = Absent THEN <<>> ELSE <<m[k].file_id>>
    IN  ids("document") \o ids("video") \o ids("audio")

\* A message carries no attachment, one attachment of any shape, or several
\* that declare neither name nor MIME type; among several, a file id is never
\* lower than the next kind's and as many different ids occur as there can.
\* User 42 sends documents only.
Messages ==
    {m \in [document : Attachments \cup {Absent},
            video : Attachments \cup {Absent},
            audio : Attachments \cup {Absent}, from_user : Users] :
        /\ m.from_user = 42 => PresentKinds(m) \subseteq {"document"}
        /\ Len(IdsOf(m)) >= 2 =>
            /\ \A k \in PresentKinds(m) :
                    m[k].file_name = None /\ m[k].mime_type = None
            /\ \A i \in 1..(Len(IdsOf(m)) - 1) : IdsOf(m)[i] >= IdsOf(m)[i + 1]
            /\ Cardinality({IdsOf(m)[i] : i \in 1..Len(IdsOf(m))})
                    = Min(Len(IdsOf(m)), MaxFileId)}

\* context.args is message.text.split()[1:]: the tokens are never empty and
\* hold no white space
ArgLists == {<<>>, <<"REPORT">>, <<"Unnamed", "Video">>}

Init ==
    /\ InitCommon
    /\ mime_arg = ""
    /\ hint_ret = Unset

Next ==
    \/ \E user \in Users : start(user)
    \/ \E message \in Messages : handle_file(message)
    \/ \E user \in Users, args \in ArgLists : search_files(user, args)

Spec == Init /\ [][Next]_vars

----------------------------------------------------------------------------
(* Properties of the handlers run one after the other                      *)

Keys(d) == {d[i].file_id : i \in 1..Len(d)}

IsIngest(u) == u.kind = "file" /\ PresentKinds(u.message) # {}
IsRejectedFile(u) == u.kind = "file" /\ PresentKinds(u.message) = {}

\* C1: owner isolation. Whatever was ingested before, by whomever, every record
\* a search by user U collects is a record of the index whose owner is U.
C1_OwnerIsolation ==
    (update.kind = "search" /\ results.scanned) =>
        \A i \in 1..Len(results.list) :
            /\ results.list[i].user_id = update.user
            /\ \E j \in 1..Len(FILE_DATABASE) :
                    FILE_DATABASE[j].data = results.list[i]

\* A search found something for its user although the index also holds a
\* record of another user whose name contains the query.
C1_Witness ==
    /\ update.kind = "search"
    /\ results.scanned
    /\ results.list # <<>>
    /\ \E j \in 1..Len(FILE_DATABASE) :
            /\ FILE_DATABASE[j].data.user_id # update.user
            /\ Contains(lower(FILE_DATABASE[j].data.file_name), reply.query)

\* C2: last write wins. No file id has two entries, and after an ingest the
\* entry under its file id is the record that ingest built and acknowledged,
\* field for field: name, MIME type, type hint, owner and unique id.
C2_LastWriteWins ==
    /\ \A i, j \in 1..Len(FILE_DATABASE) :
            FILE_DATABASE[i].file_id = FILE_DATABASE[j].file_id => i = j
    /\ IsIngest(update) =>
            /\ reply.kind = "indexed"
            /\ HasKey(FILE_DATABASE, reply.file_id)
            /\ \E k \in PresentKinds(update.message) :
                    /\ update.message[k].file_id = reply.file_id
                    /\ DictGet(FILE_DATABASE, reply.file_id) =
                        [file_name |-> reply.file_name,
                         mime_type |-> reply.mime_type,
                         user_id |-> update.message.from_user,
                         type_hint |-> reply.type_hint,
                         file_unique_id |-> update.message[k].file_unique_id]

\* The entry that was stored first, while another was stored after it, has just
\* been ingested again, by user 42 and fully declared: it is a re-ingest.
C2_Witness ==
    /\ Len(FILE_DATABASE) = 2
    /\ IsIngest(update)
    /\ update.message.from_user = 42
    /\ reply.file_id = FILE_DATABASE[1].file_id
    /\ FILE_DATABASE[1].data.file_name = "Report.PDF"
    /\ FILE_DATABASE[2].data.user_id = 7

C5_Step ==
    /\ Keys(FILE_DATABASE) \subseteq Keys(FILE_DATABASE')
    /\ \A k \in Keys(FILE_DATABASE) :
            DictGet(FILE_DATABASE', k) # DictGet(FILE_DATABASE, k) =>
                IsIngest(update') /\ reply'.kind = "indexed" /\ reply'.file_id = k
    /\ (update'.kind \in {"search", "start"} \/ IsRejectedFile(update')) =>
            FILE_DATABASE' = FILE_DATABASE

\* C5: index lifecycle. The index starts empty; no step removes a file id; the
\* record under a file id changes only in an ingest of that file id; a search,
\* a start and a rejected event leave the index as it was.
C5_IndexLifecycle == (FILE_DATABASE = <<>>) /\ [][C5_Step]_vars

\* A search has scanned an index of two records and found some.
C5_Witness ==
    /\ Len(FILE_DATABASE) = 2
    /\ update.kind = "search"
    /\ results.scanned
    /\ results.list # <<>>

C8_State ==
    /\ (update.kind = "search" /\ update.args = <<>>) =>
            reply = [kind |-> "prompt"] /\ results = NoScan
    /\ results.scanned =>
            /\ update.kind = "search"
            /\ update.args # <<>>
            /\ reply.kind \in {"no_match", "found"}
            /\ reply.query # ""

C8_Step ==
    (update'.kind = "search" /\ update'.args = <<>>) =>
        FILE_DATABASE' = FILE_DATABASE

\* C8: a search command without a keyword is answered with the prompt alone: no
\* scan runs, no result or no-match message is sent, the index is unchanged;
\* and whenever the scan runs, its query is not the empty string.
C8_MissingSearchQuery == []C8_State /\ [][C8_Step]_vars

\* A search without a keyword was answered over an index that is not empty.
C8_Witness ==
    /\ update.kind = "search"
    /\ update.args = <<>>
    /\ FILE_DATABASE # <<>>
    /\ reply.kind = "prompt"

Placeholder(k) ==
    IF k = "document" THEN "Unnamed Document"
    ELSE IF k = "video" THEN "Unnamed Video" ELSE "Unnamed Audio"

DefaultMime(k) ==
    IF k = "document" THEN "application/octet-stream"
    ELSE IF k = "video" THEN "video/mp4" ELSE "audio/mpeg"

Precedence(k) == IF k = "document" THEN 1 ELSE IF k = "video" THEN 2 ELSE 3

\* C9: ingest resolution. After an event with at least one of document, video
\* and audio, the record under the file id of the highest-precedence kind present
\* carries that attachment's unique id and the sender; its name is the declared
\* name, or the kind's placeholder if none is declared; its MIME type is the
\* declared one, or the kind's default if none is declared; and its type hint
\* is the classifier's value for the stored MIME type.
C9_IngestResolution ==
    IsIngest(update) =>
        LET k == CHOOSE x \in PresentKinds(update.message) :
                    \A y \in PresentKinds(update.message) :
                        Precedence(x) <= Precedence(y)
            a == update.message[k]
            r == DictGet(FILE_DATABASE, a.file_id)
        IN  /\ HasKey(FILE_DATABASE, a.file_id)
            /\ r.file_unique_id = a.file_unique_id
            /\ r.user_id = update.message.from_user
            /\ a.file_name = None => r.file_name = Placeholder(k)
            /\ a.file_name \notin {None, ""} => r.file_name = a.file_name
            /\ a.mime_type = None => r.mime_type = DefaultMime(k)
            /\ a.mime_type \notin {None, ""} => r.mime_type = a.mime_type
            /\ r.type_hint = get_file_type_hint(r.mime_type)

\* A message with a video and an audio under different file ids, neither
\* declaring a name or a MIME type, was stored as the video of the scenario.
C9_Witness ==
    /\ IsIngest(update)
    /\ PresentKinds(update.message) = {"video", "audio"}
    /\ update.message.video.file_id # update.message.audio.file_id
    /\ DictGet(FILE_DATABASE, update.message.video.file_id) =
            [file_name |-> "Unnamed Video", mime_type |-> "video/mp4",
             user_id |-> 7, type_hint |-> "Video (MP4/MKV/Other)",
             file_unique_id |-> "uq2"]

C10_State ==
    IsRejectedFile(update) => reply = [kind |-> "unprocessable"]

C10_Step ==
    IsRejectedFile(update') =>
        UNCHANGED <<FILE_DATABASE, scan>>

\* C10: an event with none of document, video and audio leaves the index as it
\* was and is answered with the nothing-to-process notice alone, not with the
\* success acknowledgement and not with the internal-error message that
\* follows a raised error; nothing a later handler reads is changed.
C10_UnsupportedAttachment == []C10_State /\ [][C10_Step]_vars

\* An event without attachment was rejected over an index that is not empty.
C10_Witness ==
    /\ IsRejectedFile(update)
    /\ FILE_DATABASE # <<>>
    /\ reply.kind = "unprocessable"

----------------------------------------------------------------------------
(* Searches over a long index                                              *)

MaxRecords == 7

\* First uploads only: the next document gets the next file id, its own unique
\* id and a short name; user 7 uploads under two names, user 42 under one
Uploads ==
    {[document |-> [file_id |-> f, file_unique_id |-> "uq" \o ToString(f),
                    file_name |-> o.name, mime_type |-> None],
      video |-> Absent, audio |-> Absent, from_user |-> o.user] :
        f \in 1..MaxRecords,
        o \in {[user |-> 7, name |-> "aB"], [user |-> 7, name |-> "c"],
               [user |-> 42, name |-> "Ab"]}}

SearchArgLists == {<<"AB">>, <<"b">>, <<"b", "c">>}

upload ==
    \E message \in Uploads :
        /\ message.document.file_id = Len(FILE_DATABASE) + 1
        /\ handle_file(message)

search ==
    \E user \in Users, args \in SearchArgLists : search_files(user, args)

NextSearch == upload \/ search

SpecSearch == Init /\ [][NextSearch]_vars

\* The positions of the index whose record user U owns and whose lower-cased
\* name contains the lower-cased text Q
MatchingPositions(U, Q) ==
    {p \in 1..Len(FILE_DATABASE) :
        /\ FILE_DATABASE[p].data.user_id = U
        /\ Contains(lower(FILE_DATABASE[p].data.file_name), lower(Q))}

\* The j-th position of S from the front of the index
Nth(S, j) == CHOOSE p \in S : Cardinality({q \in S : q < p}) = j - 1

\* C3: with n the number of records user U owns whose lower-cased name contains
\* the lower-cased query, a search lists the first min(5, n) of them in index
\* order, reports n as the total, and adds the "and N more" notice exactly when
\* n > 5, with N = n - 5; with n = 0 it reports that nothing was found.
C3_FirstFiveAndTrueTotal ==
    (update.kind = "search" /\ update.args # <<>>) =>
        LET S == MatchingPositions(update.user, join(" ", update.args))
            n == Cardinality(S)
        IN  /\ results.scanned
            /\ n = 0 => reply.kind = "no_match"
            /\ n > 0 =>
                /\ reply.kind = "found"
                /\ reply.total = n
                /\ Len(reply.listed) = Min(5, n)
                /\ \A j \in 1..Min(5, n) :
                        LET data == FILE_DATABASE[Nth(S, j)].data
                        IN  reply.listed[j] =
                                [number |-> j,
                                 file_name |-> data.file_name,
                                 type_hint |-> data.type_hint,
                                 file_unique_id |-> data.file_unique_id]
                /\ reply.more = (IF n > 5 THEN <<n - 5>> ELSE <<>>)

\* Six records match, a record that does not match lies among the first five
\* of them, and the search has reported all six.
C3_Witness ==
    /\ update.kind = "search"
    /\ Len(FILE_DATABASE) = 7
    /\ FILE_DATABASE[3].data.user_id # update.user
    /\ reply.kind = "found"
    /\ reply.total = 6
    /\ reply.more = <<1>>

\* The same ASCII letter in the other case; any other character itself
OtherCase(c) ==
    IF c \in DOMAIN UpperTable THEN UpperTable[c]
    ELSE IF c \in DOMAIN LowerTable THEN LowerTable[c]
    ELSE c

\* Every way of writing s in upper and lower case
RECURSIVE CaseVariants(_)
CaseVariants(s) ==
    IF s = "" THEN {""}
    ELSE {c \o rest : c \in {CharAt(s, 1), OtherCase(CharAt(s, 1))},
                      rest \in CaseVariants(SubSeq(s, 2, Len(s)))}

\* The argument lists that differ from args only in letter case
RECURSIVE ArgVariants(_)
ArgVariants(args) ==
    IF args = <<>> THEN {<<>>}
    ELSE {<<first>> \o rest : first \in CaseVariants(Head(args)),
                              rest \in ArgVariants(Tail(args))}

\* C6: matching ignores case. The search that ran collected the records and
\* sent the message that it collects and sends on the same index for every
\* query that differs from its own only in letter case, and each record of
\* the user is collected or not regardless of how its stored name is cased.
C6_CaseInsensitive ==
    (update.kind = "search" /\ update.args # <<>>) =>
        /\ \A v \in ArgVariants(update.args) :
                LET res == scan_from(FILE_DATABASE, 1, update.user,
                                     query_of(v), <<>>)
                IN  /\ results = [scanned |-> TRUE, list |-> res]
                    /\ reply = search_reply(res, query_of(v))
        /\ \A p \in 1..Len(FILE_DATABASE) :
                \A name \in CaseVariants(FILE_DATABASE[p].data.file_name) :
                    matches([FILE_DATABASE[p].data EXCEPT !.file_name = name],
                            update.user, query_of(update.args))
                        <=> \E i \in 1..Len(results.list) :
                                results.list[i] = FILE_DATABASE[p].data

\* A query typed in capitals has found a record whose stored name is in mixed
\* case, and left out a record of the same user that does not match.
C6_Witness ==
    /\ update.kind = "search"
    /\ update.args = <<"AB">>
    /\ reply.kind = "found"
    /\ \E i \in 1..Len(results.list) : results.list[i].file_name = "aB"
    /\ \E p \in 1..Len(FILE_DATABASE) :
            /\ FILE_DATABASE[p].data.user_id = update.user
            /\ FILE_DATABASE[p].data.file_name = "c"

----------------------------------------------------------------------------
(* A search and the uploads of other requests in different threads          *)
(*                                                                         *)
(* Flask runs an async view to its end in the thread of its request        *)
(* (bot.py:187-196), and app.run (bot.py:225) serves requests in threads,  *)
(* as a threaded Gunicorn worker does: two handlers interleave between     *)
(* byte codes.  The store at bot.py:95 is one step.  The for loop of       *)
(* bot.py:130 is one step per entry; the iterator remembers the size of    *)
(* the dict at its creation and raises RuntimeError ("dictionary changed   *)
(* size during iteration") at the next step once the size differs.         *)
(* scan.during collects, for the property only, the indexes that existed   *)
(* while the loop ran.                                                     *)

MaxConcFileId == 2

ConcMessages ==
    {[document |-> [file_id |-> f, file_unique_id |-> "uq1",
                    file_name |-> name, mime_type |-> None],
      video |-> Absent, audio |-> Absent, from_user |-> 7] :
        f \in 1..MaxConcFileId, name \in {"aB", "c"}}

ConcArgLists == {<<>>, <<"b">>}

\* bot.py:118-130, up to the creation of the iterator of FILE_DATABASE.items()
search_begin(user, args) ==
    /\ scan.pc # "loop"
    /\ update' = [kind |-> "search", user |-> user, args |-> args]
    /\ IF no_args(args)
       THEN /\ reply' = [kind |-> "prompt"]
            /\ results' = NoScan
            /\ scan' = [pc |-> "idle"]
       ELSE /\ reply' = reply
            /\ results' = [scanned |-> TRUE, list |-> <<>>]
            /\ scan' = [pc |-> "loop", user |-> user, query |-> query_of(args),
                        di_used |-> Len(FILE_DATABASE), di_pos |-> 1,
                        during |-> {FILE_DATABASE}, outcome |-> "running"]
    /\ UNCHANGED <<FILE_DATABASE, mime_arg, hint_ret>>

\* bot.py:130-133: one step of the iterator and the loop body; when the
\* iterator is exhausted, bot.py:135-152; when it raises, error_handler
\* (bot.py:155-160)
search_next ==
    /\ scan.pc = "loop"
    /\ IF scan.di_used # Len(FILE_DATABASE)
       THEN /\ reply' = [kind |-> "internal_error"]
            /\ results' = results
            /\ scan' = [scan EXCEPT !.pc = "done", !.outcome = "RuntimeError"]
       ELSE IF scan.di_pos > Len(FILE_DATABASE)
       THEN /\ reply' = search_reply(results.list, scan.query)
            /\ results' = results
            /\ scan' = [scan EXCEPT !.pc = "done", !.outcome = "replied"]
       ELSE /\ reply' = reply
            /\ results' =
                IF matches(FILE_DATABASE[scan.di_pos].data, scan.user, scan.query)
                THEN [results EXCEPT
                        !.list = Append(@, FILE_DATABASE[scan.di_pos].data)]
                ELSE results
            /\ scan' = [scan EXCEPT !.di_pos = @ + 1]
    /\ UNCHANGED <<FILE_DATABASE, update, mime_arg, hint_ret>>

\* handle_file in another thread
handle_file_meanwhile(message) ==
    /\ handle_file_effect(message)
    /\ scan' = IF scan.pc = "loop"
               THEN [scan EXCEPT !.during = @ \cup {FILE_DATABASE'}]
               ELSE scan
    /\ UNCHANGED <<results, mime_arg, hint_ret>>

NextConc ==
    \/ \E args \in ConcArgLists : search_begin(7, args)
    \/ search_next
    \/ \E message \in ConcMessages : handle_file_meanwhile(message)

SpecConc == Init /\ [][NextConc]_vars

\* C4: a search that ran while uploads were handled has completed without
\* failure, has collected exactly the matches of an index that existed at some
\* point while it ran, and has collected only records that one ingest built.
C4_ConcurrentSearchSafe ==
    scan.pc = "done" =>
        /\ scan.outcome = "replied"
        /\ \E d \in scan.during :
                results.list = scan_from(d, 1, scan.user, scan.query, <<>>)
        /\ \A i \in 1..Len(results.list) :
                \E message \in ConcMessages :
                    results.list[i] = new_record(message)

\* The second half alone: a search that was answered has collected the matches
\* of an index that existed while it ran.
C4_AnsweredSearchSawOneIndex ==
    (scan.pc = "done" /\ scan.outcome = "replied") =>
        \E d \in scan.during :
            results.list = scan_from(d, 1, scan.user, scan.query, <<>>)

----------------------------------------------------------------------------
(* Direct calls of the classifier                                          *)

MaxMimeLen == 3
MimeAlphabet == {"a", "B", "/"}

RECURSIVE StringsUpTo(_)
StringsUpTo(n) ==
    IF n = 0 THEN {""}
    ELSE LET S == StringsUpTo(n - 1)
         IN  S \cup {s \o c : s \in S, c \in MimeAlphabet}

ListedMimes ==
    {VIDEO_MIMES[i] : i \in 1..Len(VIDEO_MIMES)}
        \cup {DOCUMENT_MIMES[i] : i \in 1..Len(DOCUMENT_MIMES)}
        \cup {IMAGE_MIMES[i] : i \in 1..Len(IMAGE_MIMES)}

MimeInputs ==
    ListedMimes \cup StringsUpTo(MaxMimeLen)
        \cup {"application/octet-stream", "audio/mpeg", "application/x-custom",
              "VIDEO/MP4", "video/mp4/extra", "x/video/mp4", "image/", "/png",
              "Other File", "video"}

InitClassify ==
    /\ InitCommon
    /\ mime_arg \in MimeInputs
    /\ hint_ret = Unset

Classify ==
    /\ hint_ret = Unset
    /\ hint_ret' = get_file_type_hint(mime_arg)
    /\ UNCHANGED <<FILE_DATABASE, update, reply, results, mime_arg, scan>>

NextClassify == Classify

SpecClassify == InitClassify /\ [][NextClassify]_vars

\* The position of the last "/" of m, 0 if there is none
LastSlash(m) ==
    IF Contains(m, "/")
    THEN CHOOSE k \in 1..Len(m) :
            /\ CharAt(m, k) = "/"
            /\ \A j \in (k + 1)..Len(m) : CharAt(m, j) # "/"
    ELSE 0

VideoSet == {"video/mp4", "video/x-matroska", "video/quicktime", "video/mpeg",
             "video/webm", "video/x-msvideo"}
DocumentSet == {"application/pdf", "application/zip", "text/plain"}
ImageSet == {"image/jpeg", "image/png", "image/gif"}

ClassifyReference(m) ==
    IF m \in VideoSet THEN "Video (MP4/MKV/Other)"
    ELSE IF m \in DocumentSet THEN "Document (PDF/ZIP/Text)"
    ELSE IF m \in ImageSet THEN "Image"
    ELSE IF LastSlash(m) > 0 THEN upper(SubSeq(m, LastSlash(m) + 1, Len(m)))
    ELSE "Other File"

\* C7: get_file_type_hint is total and equals the reference: the video label
\* for a video MIME, else the document label for a document MIME, else
\* "Image" for an image MIME, else the uppercased text after the last "/",
\* else "Other File" (the empty string included).
C7_ClassifyMatchesReference ==
    hint_ret # Unset => hint_ret = ClassifyReference(mime_arg)

\* A MIME type with two "/" that starts like a listed one has been classified
\* by the text after its last "/".
C7_Witness ==
    /\ mime_arg = "video/mp4/extra"
    /\ hint_ret = "EXTRA"

====
